---- MODULE Spec2Model ----
(***************************************************************************)
(* The three experiment drivers of MedCLIP as one state machine.           *)
(*   vision_text_pretrain/run_medclip_cl_pretrain.py  (script "pretrain")  *)
(*   eval_zeroshot_classification.py                  (script "zeroshot")  *)
(*   run_linear_probe.py                              (script "probe")     *)
(* A behaviour is one execution of one script; Init chooses the script and *)
(* the external data it reads (csv files, dataname, evaluator key set).    *)
(***************************************************************************)
EXTENDS Integers, Sequences, FiniteSets, TLC

VARIABLES
    script,               \* which driver is executing
    pc,                   \* position in the driver
    \* ---- run_medclip_cl_pretrain.py
    csv,                  \* rows of ./local_data/iuxray-sentence-label.csv
    ndata,                \* len(traindata) = len(self.df)
    sentence_label,       \* self.sentence_label
    negative_sent_label,  \* self.negative_sent_label
    warmup_steps,         \* module-level warmup_steps
    row,                  \* self.df.iloc[index] of the last __getitem__
    sampled_sent,         \* sampled_sent of the last __getitem__
    item,                 \* value returned by the last __getitem__
    \* ---- shared by eval_zeroshot_classification.py and run_linear_probe.py
    dataname,
    tasks,
    mode,
    \* ---- eval_zeroshot_classification.py
    val_data,             \* ZeroShotImageDataset built (dataname, class names)
    i,                    \* loop variable of "for i in range(n_runs)"
    cls_prompts,          \* keys of cls_prompts of the current run
    evaluator,            \* [collator mode, evaluator mode, tasks] of the run
    res_keys,             \* key set evaluator.evaluate() returns
    res,                  \* res of the current run
    runs,                 \* history: res of every evaluate() call, in order
    branches,             \* history: loop branch taken by every run
    metrc_list,           \* defaultdict(list)
    printed,              \* what the final loop printed, per key
    \* ---- run_linear_probe.py
    vit,
    num_class,
    names,                \* clf.named_parameters() names, in order
    requires_grad,        \* name -> param.requires_grad
    grad0,                \* history: requires_grad when clf was built
    k                     \* parameters the freezing loop has visited

vars == <<script, pc, csv, ndata, sentence_label, negative_sent_label,
          warmup_steps, row, sampled_sent, item, dataname, tasks, mode,
          val_data, i, cls_prompts, evaluator, res_keys, res, runs, branches,
          metrc_list, printed, vit, num_class, names, requires_grad, grad0, k>>

pretrainVars == <<csv, ndata, sentence_label, negative_sent_label,
                  warmup_steps, row, sampled_sent, item>>
sharedVars == <<dataname, tasks, mode>>
zeroshotVars == <<val_data, i, cls_prompts, evaluator, res_keys, res, runs,
                  branches, metrc_list, printed>>
probeVars == <<vit, num_class, names, requires_grad, grad0, k>>

(***************************************************************************)
(* Generic helpers                                                         *)
(***************************************************************************)
Range(s) == {s[j] : j \in 1..Len(s)}

RECURSIVE SeqsUpTo(_, _)
SeqsUpTo(S, n) ==
    IF n = 0 THEN {<<>>}
    ELSE LET shorter == SeqsUpTo(S, n - 1)
         IN  shorter \cup {Append(s, e) : s \in {t \in shorter : Len(t) = n - 1}, e \in S}

RECURSIVE SelectRows(_, _, _)
\* df[mask] from row j on: the rows of s, in order, whose position is in mask
SelectRows(s, mask, j) ==
    IF j > Len(s) THEN <<>>
    ELSE (IF j \in mask THEN <<s[j]>> ELSE <<>>) \o SelectRows(s, mask, j + 1)

(***************************************************************************)
(* run_medclip_cl_pretrain.py                                              *)
(***************************************************************************)
_labels_ == <<"No Finding", "Enlarged Cardiomediastinum", "Cardiomegaly",
              "Lung Lesion", "Lung Opacity", "Edema", "Consolidation",
              "Pneumonia", "Atelectasis", "Pneumothorax", "Pleural Effusion",
              "Pleural Other", "Fracture", "Support Devices">>
LabelSet == Range(_labels_)

\* a missing cell of a csv (pandas NaN), for a numeric column
NaN == -99

batch_size == 128
num_epochs == 3
\* train_config['warmup'] = 0.01 = warmup_num / warmup_den
warmup_num == 1
warmup_den == 100

\* cells of the 'Reports' column: a string, a missing cell, or the integer
\* 0 that fillna(0) puts in place of a missing cell
Str(s) == [kind |-> "str", s |-> s]
NaNCell == [kind |-> "NaN", s |-> ""]
ZeroCell == [kind |-> "int", s |-> ""]


LabelVec(nf, e) ==
    [l \in LabelSet |-> IF l = "No Finding" THEN nf ELSE IF l = "Edema" THEN e ELSE 0]

\* ---- the external data the script reads --------------------------------
MaxCsv == 2
CsvTexts == {"ab", "abc", "edema"}
CsvVecs == {LabelVec(1, NaN), LabelVec(NaN, 1), LabelVec(-1, -1)}
CsvRows == {[Reports |-> Str(t), lab |-> v] : t \in CsvTexts, v \in CsvVecs}
               \cup {[Reports |-> NaNCell, lab |-> LabelVec(1, 0)]}
CsvFiles == SeqsUpTo(CsvRows, MaxCsv)
DataSizes == {1, 129}
\* rows of the concatenated *-meta.csv files: report (possibly missing) and
\* the 14 labels, each -1, 0 or 1
DfRows == {[report |-> r, lab |-> LabelVec(nf, e)] :
              r \in {NaNCell, Str("r")}, nf \in {-1, 0, 1}, e \in {-1, 0, 1}}

\* ---- __init__ ----------------------------------------------------------
\* pd.read_csv(...).fillna(0): every missing cell of every column becomes 0
fillna(frame) ==
    [j \in 1..Len(frame) |->
        [Reports |-> IF frame[j].Reports.kind = "NaN" THEN ZeroCell ELSE frame[j].Reports,
         lab |-> [l \in LabelSet |-> IF frame[j].lab[l] = NaN THEN 0 ELSE frame[j].lab[l]]]]

IsFirstOccurrence(frame, j) ==
    \A h \in 1..(j - 1) : frame[h].Reports # frame[j].Reports

\* drop_duplicates(subset='Reports'): keep the first row of each Reports value
drop_duplicates(frame) == SelectRows(frame, {j \in 1..Len(frame) : IsFirstOccurrence(frame, j)}, 1)

\* self.sentence_label['Reports'].map(len) raises TypeError on a non-string
MapLenRaises(frame) == \E j \in 1..Len(frame) : frame[j].Reports.kind # "str"

\* an off-by-one length test
LongEnoughFrom2(frame, j) == Len(frame[j].Reports.s) >= 2

LongEnough(frame, j) == Len(frame[j].Reports.s) > 2

\* [...map(len) > 2].reset_index(drop=True)
remove_short(frame) == SelectRows(frame, {j \in 1..Len(frame) : LongEnough(frame, j)}, 1)

HasNegative(frame, j) ==
    Cardinality({l \in LabelSet : frame[j].lab[l] = -1}) > 0

\* self.sentence_label.loc[(self.sentence_label[self._labels_] == -1).sum(1) > 0]
negative_sents(frame) ==
    SelectRows(frame, {j \in 1..Len(frame) : HasNegative(frame, j)}, 1)

DatasetInit ==
    /\ script = "pretrain" /\ pc = "start"
    /\ LET deduped == drop_duplicates(fillna(csv))
       IN  IF MapLenRaises(deduped)
           THEN /\ pc' = "TypeError"
                /\ sentence_label' = deduped
                /\ UNCHANGED negative_sent_label
           ELSE /\ pc' = "built"
                /\ sentence_label' = remove_short(deduped)
                /\ negative_sent_label' = negative_sents(remove_short(deduped))
    /\ UNCHANGED <<script, csv, ndata, warmup_steps, row, sampled_sent, item,
                   sharedVars, zeroshotVars, probeVars>>

\* ---- module level, lines 124-149 ---------------------------------------
CeilDiv(a, b) == (a + b - 1) \div b

\* math.ceil(len(traindata) * num_epochs * warmup)
WarmupStepsOf(n) == CeilDiv(n * num_epochs * warmup_num, warmup_den)

\* len(trainloader): DataLoader without drop_last
BatchesPerEpoch(n) == CeilDiv(n, batch_size)

ComputeWarmup ==
    /\ script = "pretrain" /\ pc = "built"
    /\ warmup_steps' = WarmupStepsOf(ndata)
    /\ pc' = "train"
    /\ UNCHANGED <<script, csv, ndata, sentence_label, negative_sent_label, row,
                   sampled_sent, item, sharedVars, zeroshotVars, probeVars>>

\* ---- __getitem__ -------------------------------------------------------
\* '' if pd.isna(row.report) else row.report
ReportOf(r) == IF r.report.kind = "NaN" THEN "" ELSE r.report.s

\* (row[self._labels_] == 0).all()
AllZero(r) == \A l \in LabelSet : r.lab[l] = 0

\* a 'No Finding' test that lets the unlabelled (0) sentences through
NoFindingNotNegative(frame, j) == frame[j].lab["No Finding"] >= 0

NoFindingPositive(frame, j) == frame[j].lab["No Finding"] > 0

\* self.sentence_label[self.sentence_label['No Finding'] > 0]
NoFindingSents(frame) == SelectRows(frame, {j \in 1..Len(frame) : NoFindingPositive(frame, j)}, 1)

\* the product without line 70, negative products kept
bool_sent_label_signed(frame, r, j, l) == frame[j].lab[l] * r.lab[l]

\* (self.sentence_label[self._labels_] * row[self._labels_]) with the
\* negative products set to 0, for sentence j and label l
bool_sent_label(frame, r, j, l) ==
    LET prod == frame[j].lab[l] * r.lab[l]
    IN  IF prod < 0 THEN 0 ELSE prod

\* ~(bool_sent_label.iloc[:,1:] == 0).all(1)
AgreesBeyondNoFinding(frame, r, j) ==
    ~ \A l \in Range(Tail(_labels_)) : bool_sent_label(frame, r, j, l) = 0

\* ~(bool_sent_label == 0).all(1)
AgreesAnywhere(frame, r, j) ==
    ~ \A l \in LabelSet : bool_sent_label(frame, r, j, l) = 0

\* the frame .sample() is called on
Candidates(frame, r) ==
    IF AllZero(r)
    THEN NoFindingSents(frame)
    ELSE LET sents == SelectRows(frame, {j \in 1..Len(frame) : AgreesBeyondNoFinding(frame, r, j)}, 1)
         IN  IF Len(sents) = 0 THEN SelectRows(frame, {j \in 1..Len(frame) : AgreesAnywhere(frame, r, j)}, 1) ELSE sents

\* "=" in place of "+=": the row's report is dropped
OverwriteWithSentence(report, sent) == " " \o sent.Reports.s

\* report += ' ' + sampled_sent['Reports'].values[0]
AppendSentence(report, sent) == report \o " " \o sent.Reports.s

GetItem ==
    /\ script = "pretrain" /\ pc = "train"
    /\ \E r \in DfRows :
         LET cands == Candidates(sentence_label, r)
         IN  /\ row' = r
             /\ IF Len(cands) = 0
                THEN \* DataFrame.sample() of an empty frame raises ValueError
                     /\ pc' = "ValueError"
                     /\ UNCHANGED <<sampled_sent, item>>
                ELSE \E c \in 1..Len(cands) :
                        /\ sampled_sent' = cands[c]
                        /\ item' = [img |-> "img", report |-> AppendSentence(ReportOf(r), cands[c])]
                        /\ pc' = "train"
    /\ UNCHANGED <<script, csv, ndata, sentence_label, negative_sent_label,
                   warmup_steps, sharedVars, zeroshotVars, probeVars>>

TrainDone ==
    /\ script = "pretrain" /\ pc = "train"
    /\ pc' = "done"
    /\ UNCHANGED <<script, pretrainVars, sharedVars, zeroshotVars, probeVars>>

(***************************************************************************)
(* eval_zeroshot_classification.py                                         *)
(***************************************************************************)
n_runs == 5

\* metric values an evaluation can report, and the key sets of its result
MetricValues == {1, 2}
ResKeySets == {{"acc", "pred", "labels"}, {"acc", "auc", "pred", "labels"}}

ZeroshotNames == {"chexpert-5x200", "mimic-5x200", "covid-test",
                  "covid-2x200-test", "rsna-balanced-test", "rsna-2x200-test"}
ProbeNames == {"chexpert-5x200", "mimic-5x200", "covid", "covid-2x200",
               "rsna-balanced", "rsna-2x200"}
\* every dataname either script is given
Datanames == ZeroshotNames \cup ProbeNames \cup {"iuxray"}

\* a first dispatch that also lets the linear-probe covid names through
ZeroshotTasksLoose(name) ==
    IF name \in {"chexpert-5x200", "mimic-5x200"} THEN "CHEXPERT_COMPETITION_TASKS"
    ELSE IF name \in {"covid", "covid-2x200", "covid-test", "covid-2x200-test"} THEN "COVID_TASKS"
    ELSE IF name \in {"rsna-balanced-test", "rsna-2x200-test"} THEN "RSNA_TASKS"
    ELSE ""

\* lines 59-66; "" stands for the raise NotImplementedError
ZeroshotTasks(name) ==
    IF name \in {"chexpert-5x200", "mimic-5x200"} THEN "CHEXPERT_COMPETITION_TASKS"
    ELSE IF name \in {"covid-test", "covid-2x200-test"} THEN "COVID_TASKS"
    ELSE IF name \in {"rsna-balanced-test", "rsna-2x200-test"} THEN "RSNA_TASKS"
    ELSE ""

ZeroshotDispatch ==
    /\ script = "zeroshot" /\ pc = "start"
    /\ IF ZeroshotTasks(dataname) = ""
       THEN pc' = "NotImplementedError" /\ UNCHANGED tasks
       ELSE pc' = "dispatched" /\ tasks' = ZeroshotTasks(dataname)
    /\ UNCHANGED <<script, pretrainVars, dataname, mode, zeroshotVars, probeVars>>

\* lines 69-75: val_data, df_sent, metrc_list = defaultdict(list)
BuildValData ==
    /\ script = "zeroshot" /\ pc = "dispatched"
    /\ val_data' = [datalist |-> <<dataname>>, class_names |-> tasks]
    /\ metrc_list' = [key \in {} |-> <<>>]
    /\ pc' = "loop"
    /\ UNCHANGED <<script, pretrainVars, sharedVars, i, cls_prompts, evaluator,
                   res_keys, res, runs, branches, printed, probeVars>>

\* the if / elif / elif / else of the loop body, lines 78-146: the branch
\* taken, the tasks its prompts are generated for and the mode it passes to
\* the collator and to the evaluator; branch "else" raises
LoopBranch(name) ==
    IF name \in {"chexpert-5x200", "mimic-5x200"}
    THEN [branch |-> "chexpert", prompts |-> "CHEXPERT_COMPETITION_TASKS",
          collator_mode |-> "multiclass", evaluator_mode |-> "multiclass"]
    ELSE IF name \in {"covid-test", "covid-2x200-test"}
    THEN [branch |-> "covid", prompts |-> "COVID_TASKS",
          collator_mode |-> "binary", evaluator_mode |-> "binary"]
    ELSE IF name \in {"rsna-balanced-test", "rsna-2x200-test"}
    THEN [branch |-> "rsna", prompts |-> "RSNA_TASKS",
          collator_mode |-> "binary", evaluator_mode |-> "binary"]
    ELSE [branch |-> "else", prompts |-> "", collator_mode |-> "", evaluator_mode |-> ""]

\* one pass through lines 76-146: range(n_runs) yields i, the branch
\* generates cls_prompts (the prompts of its own task list), asserts their
\* keys against tasks and builds the collator, dataloader and evaluator
BuildEvaluator ==
    /\ script = "zeroshot" /\ pc = "loop" /\ i < n_runs
    /\ LET b == LoopBranch(dataname)
       IN  /\ branches' = Append(branches, b.branch)
           /\ IF b.branch = "else"
              THEN /\ pc' = "NotImplementedError in loop"
                   /\ UNCHANGED <<cls_prompts, evaluator>>
              ELSE /\ cls_prompts' = [keys |-> b.prompts, generated |-> Len(branches) + 1]
                   /\ IF b.prompts # tasks
                      THEN \* the assert on list(cls_prompts.keys()) fails
                           pc' = "AssertionError" /\ UNCHANGED evaluator
                      ELSE /\ evaluator' = [cls_prompts |-> cls_prompts',
                                            collator_mode |-> b.collator_mode,
                                            mode |-> b.evaluator_mode,
                                            val_data |-> val_data]
                           /\ pc' = "evaluate"
    /\ UNCHANGED <<script, pretrainVars, sharedVars, val_data, i, res_keys, res,
                   runs, metrc_list, printed, probeVars>>

\* line 148: res = evaluator.evaluate()
Evaluate ==
    /\ script = "zeroshot" /\ pc = "evaluate"
    /\ \E metrics \in [res_keys \ {"pred", "labels"} -> MetricValues] :
         /\ res' = [key \in res_keys |-> IF key \in DOMAIN metrics THEN metrics[key] ELSE -1]
         /\ runs' = Append(runs, [res |-> res', evaluator |-> evaluator])
    /\ pc' = "collect"
    /\ UNCHANGED <<script, pretrainVars, sharedVars, val_data, i, cls_prompts,
                   evaluator, res_keys, branches, metrc_list, printed, probeVars>>

\* a filter that forgets 'labels'
IsNotPred(key) == key \notin {"pred"}

\* line 150
IsMetricKey(key) == key \notin {"pred", "labels"}

\* lines 149-152: metrc_list[key].append(res[key]) for the kept keys
Collected(list, r) ==
    [key \in DOMAIN list \cup {q \in DOMAIN r : IsMetricKey(q)} |->
        IF key \in DOMAIN r /\ IsMetricKey(key)
        THEN Append(IF key \in DOMAIN list THEN list[key] ELSE <<>>, r[key])
        ELSE list[key]]

Collect ==
    /\ script = "zeroshot" /\ pc = "collect"
    /\ metrc_list' = Collected(metrc_list, res)
    /\ i' = i + 1
    /\ pc' = "loop"
    /\ UNCHANGED <<script, pretrainVars, sharedVars, val_data, cls_prompts,
                   evaluator, res_keys, res, runs, branches, printed, probeVars>>

RECURSIVE SumSeq(_)
SumSeq(s) == IF s = <<>> THEN 0 ELSE Head(s) + SumSeq(Tail(s))

\* np.mean(value) = sum / n and np.std(value) = sqrt(n * sumsq - sum^2) / n
Summary(value) ==
    [n |-> Len(value), sum |-> SumSeq(value),
     sumsq |-> SumSeq([j \in 1..Len(value) |-> value[j] * value[j]])]

\* lines 154-155
PrintSummary ==
    /\ script = "zeroshot" /\ pc = "loop" /\ i >= n_runs
    /\ printed' = [key \in DOMAIN metrc_list |-> Summary(metrc_list[key])]
    /\ pc' = "done"
    /\ UNCHANGED <<script, pretrainVars, sharedVars, val_data, i, cls_prompts,
                   evaluator, res_keys, res, runs, branches, metrc_list, probeVars>>

(***************************************************************************)
(* run_linear_probe.py                                                     *)
(***************************************************************************)
\* lines 51-80: [tasks, num_class, mode]; num_class 0 stands for the raise
ProbeConfig(name) ==
    IF name \in {"chexpert-5x200", "mimic-5x200"}
    THEN [tasks |-> "CHEXPERT_COMPETITION_TASKS", num_class |-> 5, mode |-> "multiclass"]
    ELSE IF name = "covid"
    THEN [tasks |-> "COVID_TASKS", num_class |-> 2, mode |-> "binary"]
    ELSE IF name = "covid-2x200"
    THEN [tasks |-> "COVID_TASKS", num_class |-> 2, mode |-> "binary"]
    ELSE IF name \in {"rsna-balanced", "rsna-2x200"}
    THEN [tasks |-> "RSNA_TASKS", num_class |-> 2, mode |-> "binary"]
    ELSE [tasks |-> "", num_class |-> 0, mode |-> ""]

ProbeDispatch ==
    /\ script = "probe" /\ pc = "start"
    /\ LET c == ProbeConfig(dataname)
       IN  IF c.num_class = 0
           THEN pc' = "NotImplementedError" /\ UNCHANGED <<tasks, mode, num_class>>
           ELSE /\ pc' = "dispatched"
                /\ tasks' = c.tasks /\ mode' = c.mode /\ num_class' = c.num_class
    /\ UNCHANGED <<script, pretrainVars, dataname, zeroshotVars, vit, names,
                   requires_grad, grad0, k>>

\* names of clf.named_parameters(): the vision model is clf.model, the
\* linear head is clf.fc
NamedParameters(v) ==
    IF v
    THEN <<"model.model.embeddings.patch_embeddings.projection.weight",
           "model.projection_head.weight", "fc.weight", "fc.bias">>
    ELSE <<"model.model.conv1.weight", "model.model.fc.weight",
           "fc.weight", "fc.bias">>

\* lines 83-99: the vision model is loaded from its checkpoint and wrapped;
\* each parameter arrives with the requires_grad its module gave it
BuildClf ==
    /\ script = "probe" /\ pc = "dispatched"
    /\ names' = NamedParameters(vit)
    /\ \E g \in [Range(NamedParameters(vit)) -> BOOLEAN] :
         requires_grad' = g /\ grad0' = g
    /\ k' = 0
    /\ pc' = "freeze"
    /\ UNCHANGED <<script, pretrainVars, sharedVars, zeroshotVars, vit, num_class>>

\* a test on the last component of the name, which spares the vision
\* model's own fc layer
IsFrozenNameByLeaf(name) ==
    name \notin {"fc.weight", "fc.bias", "model.model.fc.weight", "model.model.fc.bias"}

\* line 101
IsFrozenName(name) == name \notin {"fc.weight", "fc.bias"}

\* lines 100-102, one iteration of the loop
FreezeStep ==
    /\ script = "probe" /\ pc = "freeze" /\ k < Len(names)
    /\ requires_grad' = IF IsFrozenName(names[k + 1])
                        THEN [requires_grad EXCEPT ![names[k + 1]] = FALSE]
                        ELSE requires_grad
    /\ k' = k + 1
    /\ UNCHANGED <<script, pc, pretrainVars, sharedVars, zeroshotVars, vit,
                   num_class, names, grad0>>

\* lines 104-143: the loop is exhausted; data, objectives, trainer, evaluator
BuildTrainer ==
    /\ script = "probe" /\ pc = "freeze" /\ k >= Len(names)
    /\ pc' = "train"
    /\ UNCHANGED <<script, pretrainVars, sharedVars, zeroshotVars, probeVars>>

\* lines 144-163: trainer.train(clf, ...) and the final evaluation
Train ==
    /\ script = "probe" /\ pc = "train"
    /\ pc' = "done"
    /\ UNCHANGED <<script, pretrainVars, sharedVars, zeroshotVars, probeVars>>

(***************************************************************************)
(* The specification                                                       *)
(***************************************************************************)
InitPretrain ==
    /\ script = "pretrain"
    /\ csv \in CsvFiles
    /\ ndata \in DataSizes
    /\ dataname = "" /\ res_keys = {} /\ vit = FALSE

InitZeroshot ==
    /\ script = "zeroshot"
    /\ dataname \in Datanames
    /\ res_keys \in ResKeySets
    /\ csv = <<>> /\ ndata = 0 /\ vit = TRUE

InitProbe ==
    /\ script = "probe"
    /\ dataname \in Datanames
    /\ vit \in BOOLEAN
    /\ csv = <<>> /\ ndata = 0 /\ res_keys = {}

Init ==
    /\ pc = "start"
    /\ (InitPretrain \/ InitZeroshot \/ InitProbe)
    /\ sentence_label = <<>> /\ negative_sent_label = <<>>
    /\ warmup_steps = 0
    /\ row = [report |-> NaNCell, lab |-> LabelVec(0, 0)]
    /\ sampled_sent = [Reports |-> Str(""), lab |-> LabelVec(0, 0)]
    /\ item = [img |-> "", report |-> ""]
    /\ tasks = "" /\ mode = ""
    /\ val_data = [datalist |-> <<>>, class_names |-> ""]
    /\ i = 0
    /\ cls_prompts = [keys |-> "", generated |-> 0]
    /\ evaluator = [cls_prompts |-> [keys |-> "", generated |-> 0],
                    collator_mode |-> "", mode |-> "", val_data |-> val_data]
    /\ res = [key \in {} |-> 0]
    /\ runs = <<>> /\ branches = <<>>
    /\ metrc_list = [key \in {} |-> <<>>]
    /\ printed = [key \in {} |-> 0]
    /\ num_class = 0
    /\ names = <<>>
    /\ requires_grad = [name \in {} |-> FALSE]
    /\ grad0 = [name \in {} |-> FALSE]
    /\ k = 0

Next ==
    \/ DatasetInit \/ ComputeWarmup \/ GetItem \/ TrainDone
    \/ ZeroshotDispatch \/ BuildValData \/ BuildEvaluator \/ Evaluate
    \/ Collect \/ PrintSummary
    \/ ProbeDispatch \/ BuildClf \/ FreezeStep \/ BuildTrainer \/ Train

Spec == Init /\ [][Next]_vars

(***************************************************************************)
(* Properties                                                              *)
(***************************************************************************)
\* the last __getitem__ returned (a raising call leaves pc at its error)
Returned == script = "pretrain" /\ pc \in {"train", "done"} /\ item.img = "img"

\* sentence s and row r agree on label l: the product of the labels is positive
Agree(s, r, l) == s.lab[l] * r.lab[l] > 0

RowLabelled(r) == \E l \in LabelSet : r.lab[l] # 0

OtherLabels == LabelSet \ {"No Finding"}

\* ---- C1 ----------------------------------------------------------------
\* C1: once the freezing loop of the linear-probe script has finished and
\* until trainer.train has run, every parameter not named fc.weight or
\* fc.bias has requires_grad = False, and at every point of the loop and
\* after it fc.weight and fc.bias have the requires_grad they were built
\* with, whatever vit and dataname are.
C1_FrozenBackbone ==
    (script = "probe" /\ pc \in {"freeze", "train", "done"}) =>
        /\ \A name \in {"fc.weight", "fc.bias"} :
              /\ name \in Range(names)
              /\ requires_grad[name] = grad0[name]
        /\ (pc = "train" \/ (pc = "freeze" /\ k = Len(names))) =>
              \A name \in Range(names) \ {"fc.weight", "fc.bias"} :
                  requires_grad[name] = FALSE

C1_Witness ==
    /\ script = "probe" /\ pc = "train" /\ ~vit /\ dataname = "rsna-2x200"
    /\ \A name \in Range(names) : grad0[name]
    /\ requires_grad["fc.weight"] /\ requires_grad["fc.bias"]
    /\ ~requires_grad["model.model.fc.weight"]

\* ---- C2 ----------------------------------------------------------------
\* C2: when __getitem__ returns for a row whose 14 labels are all 0, the
\* sentence it sampled is a row of the sentence bank whose 'No Finding'
\* label is > 0.
C2_NoLabelUsesNoFinding ==
    (Returned /\ ~RowLabelled(row)) =>
        /\ sampled_sent \in Range(sentence_label)
        /\ sampled_sent.lab["No Finding"] > 0

C2_Witness ==
    /\ Returned /\ ~RowLabelled(row)
    /\ Len(sentence_label) = 2
    /\ \E s \in Range(sentence_label) : s.lab["No Finding"] = 0
    /\ \E s \in Range(sentence_label) : s.lab["No Finding"] = 1

C4_WarmupIsOnePercentOfSteps ==
    (script = "pretrain" /\ pc \in {"train", "done", "ValueError"}) =>
        warmup_steps = CeilDiv(warmup_num * num_epochs * BatchesPerEpoch(ndata), warmup_den)

\* ---- C5 ----------------------------------------------------------------
MetricKeys == res_keys \ {"pred", "labels"}

\* C5: evaluator.evaluate() is called n_runs times (never more, and exactly
\* n_runs times when the script finishes), the j-th call on prompts generated
\* in pass j of the loop; after the k-th run metrc_list has exactly the keys
\* of the result other than 'pred' and 'labels', each with the k values of
\* runs 1..k in order; 'pred' and 'labels' are never keys of metrc_list; and
\* what is printed for a key summarises exactly its n_runs values.
C5_MetricsPerRun ==
    script = "zeroshot" =>
        /\ Len(runs) <= n_runs
        /\ pc = "done" => Len(runs) = n_runs
        /\ \A j \in 1..Len(runs) : runs[j].evaluator.cls_prompts.generated = j
        /\ "pred" \notin DOMAIN metrc_list /\ "labels" \notin DOMAIN metrc_list
        /\ (pc \in {"loop", "done"} /\ i >= 1) =>
              /\ Len(runs) = i
              /\ DOMAIN metrc_list = MetricKeys
              /\ \A key \in MetricKeys :
                    /\ Len(metrc_list[key]) = i
                    /\ \A j \in 1..i : metrc_list[key][j] = runs[j].res[key]
        /\ pc = "done" =>
              /\ DOMAIN printed = MetricKeys
              /\ \A key \in MetricKeys :
                    /\ printed[key].n = n_runs
                    /\ printed[key].sum = SumSeq([j \in 1..n_runs |-> runs[j].res[key]])
                    /\ printed[key].sumsq =
                          SumSeq([j \in 1..n_runs |-> runs[j].res[key] * runs[j].res[key]])

C5_Witness ==
    /\ script = "zeroshot" /\ pc = "done"
    /\ "auc" \in res_keys
    /\ metrc_list["acc"] = <<1, 2, 1, 1, 2>>
    /\ metrc_list["auc"] = <<2, 2, 1, 2, 1>>

\* ---- C6 ----------------------------------------------------------------
\* C6: the report __getitem__ returns is the row's report ('' when it is
\* missing), one space, and the 'Reports' text of the one sentence it
\* sampled from the bank, on the unlabelled and on the labelled branch.
C6_ReportPlusOneSentence ==
    Returned =>
        /\ sampled_sent \in Range(sentence_label)
        /\ item.report = (IF row.report.kind = "NaN" THEN "" ELSE row.report.s)
                            \o " " \o sampled_sent.Reports.s

C6_Witness ==
    /\ Returned /\ RowLabelled(row)
    /\ row.report = Str("r")
    /\ item.report = "r edema"

\* ---- C7 ----------------------------------------------------------------
\* C7: once __init__ has returned, the bank has no two rows with the same
\* 'Reports' text, no row whose text is not a string longer than 2, and no
\* label other than -1, 0, 1; it is made of rows of the csv; and a sentence
\* __getitem__ sampled is a row of that bank, longer than 2.
C7_BankIsClean ==
    (script = "pretrain" /\ pc \in {"built", "train", "done", "ValueError"}) =>
        /\ \A a, b \in 1..Len(sentence_label) :
              a # b => sentence_label[a].Reports # sentence_label[b].Reports
        /\ \A a \in 1..Len(sentence_label) :
              /\ sentence_label[a].Reports.kind = "str"
              /\ Len(sentence_label[a].Reports.s) > 2
              /\ \A l \in LabelSet : sentence_label[a].lab[l] \in {-1, 0, 1}
              /\ \E c \in 1..Len(csv) :
                    /\ csv[c].Reports = sentence_label[a].Reports
                    /\ \A l \in LabelSet :
                          sentence_label[a].lab[l] =
                             (IF csv[c].lab[l] = NaN THEN 0 ELSE csv[c].lab[l])
        /\ item.img = "img" =>
              /\ sampled_sent \in Range(sentence_label)
              /\ Len(sampled_sent.Reports.s) > 2

\* a csv with a too short sentence and a missing label, and a later sample
C7_Witness ==
    /\ Returned
    /\ Len(csv) = 2 /\ Len(sentence_label) = 1
    /\ \E c \in 1..Len(csv) : Len(csv[c].Reports.s) = 2
    /\ \E c \in 1..Len(csv) : csv[c].Reports = sampled_sent.Reports
                                 /\ csv[c].lab["Edema"] = NaN

\* ---- C8 ----------------------------------------------------------------
\* C8: for a dataname outside the six supported ones the zero-shot script
\* goes from its start to NotImplementedError only, with no dataset built
\* and no run started; for a supported one it never raises
\* NotImplementedError, every run takes the branch of the first dispatch
\* (multiclass with CHEXPERT_COMPETITION_TASKS for the 5x200 sets, binary
\* with COVID_TASKS or RSNA_TASKS for the others) and hands the collator and
\* the evaluator that same mode; the raise inside the loop is never reached.
C8_DispatchAgrees ==
    script = "zeroshot" =>
        /\ pc # "NotImplementedError in loop"
        /\ dataname \notin {"chexpert-5x200", "mimic-5x200", "covid-test",
                            "covid-2x200-test", "rsna-balanced-test", "rsna-2x200-test"} =>
              /\ pc \in {"start", "NotImplementedError"}
              /\ val_data.datalist = <<>> /\ branches = <<>> /\ runs = <<>>
        /\ dataname \in {"chexpert-5x200", "mimic-5x200", "covid-test",
                         "covid-2x200-test", "rsna-balanced-test", "rsna-2x200-test"} =>
              LET want ==
                    IF dataname \in {"chexpert-5x200", "mimic-5x200"}
                    THEN <<"chexpert", "CHEXPERT_COMPETITION_TASKS", "multiclass">>
                    ELSE IF dataname \in {"covid-test", "covid-2x200-test"}
                    THEN <<"covid", "COVID_TASKS", "binary">>
                    ELSE <<"rsna", "RSNA_TASKS", "binary">>
              IN  /\ pc # "NotImplementedError"
                  /\ pc # "start" => tasks = want[2]
                  /\ \A j \in 1..Len(branches) : branches[j] = want[1]
                  /\ \A j \in 1..Len(runs) :
                        /\ runs[j].evaluator.mode = want[3]
                        /\ runs[j].evaluator.collator_mode = want[3]
                        /\ runs[j].evaluator.cls_prompts.keys = want[2]
                        /\ runs[j].evaluator.val_data =
                              [datalist |-> <<dataname>>, class_names |-> want[2]]

C8_Witness ==
    /\ script = "zeroshot" /\ pc = "done" /\ dataname = "covid-2x200-test"
    /\ Len(branches) = n_runs /\ Len(runs) = n_runs

====
